---- MODULE Spec2Model ----
(***************************************************************************)
(* Job orchestration of the vegetation change engine:                      *)
(* services/change_orchestrator.py (AnalysisJob, JobStore,                 *)
(* ChangeOrchestrator).                                                    *)
(*                                                                         *)
(* Python objects are modelled by reference.  An AnalysisJob object lives  *)
(* in `heap` under its job id (ids are never reused, so the id names the   *)
(* object); `jobs` is the key set of JobStore._jobs.  JobStore.get returns *)
(* the object itself, so a holder of a job id reads `heap` directly.       *)
(* The VegChangeConfig object a caller passes to create_job lives in       *)
(* `cfgHeap` under the id of the job made from it; the job stores a        *)
(* reference to it.                                                        *)
(* Every JobStore method body runs under JobStore._lock and is one step;   *)
(* a thread may be pre-empted between two store calls.                     *)
(***************************************************************************)
EXTENDS Integers, Sequences, FiniteSets, TLC

(* ------------------------------ bounds --------------------------------- *)
\* largest value datetime.utcnow() returns
MaxTime == 1
\* Spec: job ids allocated, calls of run_job / run_job_from_file, runner threads
MaxJobs == 2
MaxRuns == 2
NumRunners == 1
\* SpecRun, SpecReader, SpecConfig: the same three
RunJobs == 1
RunCalls == 1
RunThreads == 1
\* SpecStore: job ids allocated, and the max_jobs the JobStore is built with
MaxStoreJobs == 3
StoreCapacity == 1
\* SpecCancel: job ids allocated
CancelJobs == 1
\* SpecAbsent: job ids allocated, calls of run_job, runner threads
AbsentJobs == 1
AbsentRuns == 1
AbsentThreads == 1
\* SpecEvict: jobs in the store beyond the cleanup margin
EvictExtra == 1
\* SpecEvict: latest jobs whose completion times are drawn one by one
EvictVaried == 6
\* SpecConc: job ids allocated, runner threads
ConcJobs == 2
ConcThreads == 2
\* SpecLive: job ids allocated, runner threads (each makes one call)
LiveJobs == 2
LiveThreads == 1
\* SpecAsync: job ids allocated
AsyncJobs == 2
\* SpecClassify: largest threshold boundary and largest delta, in units of 0.05
MaxThreshold == 2
MaxDelta == 5
\* SpecChange: most periods in a composites map, most indices in a list
MaxPeriods == 4
MaxIndices == 2

(* --------------------------- program constants ------------------------- *)
\* JobStore.__init__(max_jobs=100)
DefaultMaxJobs == 100
\* _cleanup_old_jobs: to_remove = len - max_jobs + 10
CleanupMargin == 10
\* list_jobs(limit=50)
DefaultLimit == 50

\* AnalysisStatus
PENDING == "pending"
RUNNING == "running"
COMPLETED == "completed"
FAILED == "failed"
CANCELLED == "cancelled"
AnalysisStatus == {PENDING, RUNNING, COMPLETED, FAILED, CANCELLED}

\* Optional[...] fields: None for a datetime, a reference, a str, a dict
NoTime == -1
NoRef == 0
None == "None"

\* progress is a float in [0, 1]; it is kept in units of 1/10000
ProgressUnit == 10000

\* contents of a VegChangeConfig that analyze reads
CfgValues ==
    { [periods |-> <<"1990s", "present">>, indices |-> <<"ndvi">>,
       cloud_threshold |-> 20, export_scale |-> 30],
      [periods |-> <<"2000s", "present">>, indices |-> <<"ndvi", "nbr">>,
       cloud_threshold |-> 50, export_scale |-> 100] }
DefaultCfgValue ==
    [periods |-> <<"1990s", "present">>, indices |-> <<"ndvi">>,
     cloud_threshold |-> 20, export_scale |-> 30]

VARIABLES
    heap,        \* job id -> AnalysisJob object (every object ever created)
    jobs,        \* keys of JobStore._jobs
    max_jobs,    \* JobStore._max_jobs
    clock,       \* last value returned by datetime.utcnow()
    cfgHeap,     \* config object (by job id) -> its current contents
    run,         \* runner thread -> frame of run_job / run_job_from_file
    cancel,      \* frame of the thread executing cancel_job
    reader,      \* what a get_job / list_jobs caller holds
    hist,        \* history: facts about past calls that the claims mention
    lim,         \* the bounds of the specification being run
    eng          \* the change engine: the objects and results of its functions

\* the state of the orchestrator and its JobStore
orch == <<heap, jobs, max_jobs, clock, cfgHeap, run, cancel, reader, hist, lim>>

vars == <<orch, eng>>

(* ------------------------------ AnalysisJob ---------------------------- *)
\* AnalysisJob(job_id, status=PENDING, config) with the dataclass defaults
NewJob(job_id, config, now) ==
    [job_id |-> job_id, status |-> PENDING, config |-> config,
     created_at |-> now, started_at |-> NoTime, completed_at |-> NoTime,
     progress |-> 0, current_step |-> "", results |-> None, error |-> None]

\* datetime.utcnow(): the clock never runs backwards; it may have advanced
Now == { t \in {clock, clock + 1} : t <= MaxTime }

(* -------------------------------- JobStore ------------------------------ *)
\* for key, value in kwargs.items(): if hasattr(job, key): setattr(...)
RECURSIVE ApplyKw(_, _)
ApplyKw(job, kw) ==
    IF kw = <<>> THEN job
    ELSE LET key == Head(kw)[1]
             value == Head(kw)[2]
         IN ApplyKw(IF key \in DOMAIN job THEN [job EXCEPT ![key] = value] ELSE job,
                    Tail(kw))

\* a lookup that still finds a job that has left the store
StoreGetStale(job_id) == IF job_id \in DOMAIN heap THEN job_id ELSE NoRef

\* self._jobs.get(job_id): the job object (named by its id), or None
StoreGet(job_id) == IF job_id \in jobs THEN job_id ELSE NoRef

\* an update that writes to every stored job
StoreUpdateAll(job_id, kw) ==
    IF StoreGet(job_id) # NoRef
    THEN [j \in DOMAIN heap |-> IF j \in jobs THEN ApplyKw(heap[j], kw) ELSE heap[j]]
    ELSE heap

\* JobStore.update: the heap after update(job_id, **kw)
StoreUpdate(job_id, kw) ==
    IF StoreGet(job_id) # NoRef
    THEN [heap EXCEPT ![job_id] = ApplyKw(heap[job_id], kw)]
    ELSE heap

\* a cleanup that takes every job that has ended, cancelled ones included
CleanupCandidateAnyEnded(job) == job.status \in {COMPLETED, FAILED, CANCELLED}

\* a cleanup that also takes jobs that are still running
CleanupCandidateAnyStarted(job) == job.status \in {COMPLETED, FAILED, RUNNING}

\* the filter of _cleanup_old_jobs
CleanupCandidate(job) == job.status \in {COMPLETED, FAILED}

\* a sort by creation time
CleanupKeyCreated(job) == job.created_at

\* sort key of _cleanup_old_jobs: completed_at or created_at
CleanupKey(job) ==
    IF job.completed_at # NoTime THEN job.completed_at ELSE job.created_at

\* list.sort is stable and a dict iterates in insertion order, which is the
\* order of the ids
RECURSIVE SortCompleted(_)
SortCompleted(S) ==
    IF S = {} THEN <<>>
    ELSE LET m == CHOOSE x \in S : \A y \in S :
                     \/ CleanupKey(heap[x]) < CleanupKey(heap[y])
                     \/ CleanupKey(heap[x]) = CleanupKey(heap[y]) /\ x <= y
         IN <<m>> \o SortCompleted(S \ {m})

\* a cleanup that removes down to the capacity and no further
CleanupRemovedNoMargin ==
    IF Cardinality(jobs) < max_jobs THEN {}
    ELSE LET completed == SortCompleted({ j \in jobs : CleanupCandidate(heap[j]) })
             to_remove == Cardinality(jobs) - max_jobs
         IN { completed[i] : i \in 1..(IF to_remove < Len(completed)
                                       THEN to_remove ELSE Len(completed)) }

\* _cleanup_old_jobs: the ids it deletes
CleanupRemoved ==
    IF Cardinality(jobs) < max_jobs THEN {}
    ELSE LET completed == SortCompleted({ j \in jobs : CleanupCandidate(heap[j]) })
             to_remove == Cardinality(jobs) - max_jobs + CleanupMargin
         IN { completed[i] : i \in 1..(IF to_remove < Len(completed)
                                       THEN to_remove ELSE Len(completed)) }

\* str(uuid.uuid4())[:8]: an id no job has had
FreshId == Cardinality(DOMAIN heap) + 1


(* ---------------------- engine: change thresholds ----------------------- *)
\* CHANGE_THRESHOLDS; deltas and thresholds are kept in units of 1/20 = 0.05
DeltaUnit == 20

CHANGE_THRESHOLDS ==
    [dndvi |-> [strong_loss |-> -3, moderate_loss |-> -1, stable_min |-> -1,
                stable_max |-> 1, moderate_gain |-> 1, strong_gain |-> 3],
     dnbr  |-> [strong_loss |-> -4, moderate_loss |-> -2, stable_min |-> -2,
                stable_max |-> 2, moderate_gain |-> 2, strong_gain |-> 4]]

\* index names a caller passes to from_config
IndexNames == {"ndvi", "nbr", "evi"}

\* from_config: CHANGE_THRESHOLDS.get(f"d{index_name}", CHANGE_THRESHOLDS["dndvi"])
ConfiguredThresholds(index_name) ==
    LET key == "d" \o index_name
    IN IF key \in DOMAIN CHANGE_THRESHOLDS
       THEN CHANGE_THRESHOLDS[key]
       ELSE CHANGE_THRESHOLDS["dndvi"]

\* the names of the spectral indices, as their characters
RegistryIndices ==
    { <<"n", "d", "v", "i">>, <<"n", "b", "r">>, <<"n", "d", "w", "i">>,
      <<"e", "v", "i">>, <<"n", "d", "m", "i">> }

\* the str of a sequence of characters
RECURSIVE Str(_)
Str(chars) == IF chars = <<>> THEN "" ELSE Head(chars) \o Str(Tail(chars))

\* str.replace(old, ""): every occurrence of the character is removed
Replace(chars, old) == SelectSeq(chars, LAMBDA c : c # old)

\* analyze_period_change(before, after, index_name) without thresholds:
\* classify_change(delta, None, f"d{index_name}") makes
\* ChangeThresholds.from_config(index_name.replace("d", "")) of the name it got
DefaultThresholds(index) ==
    ConfiguredThresholds(Str(Replace(<<"d">> \o index, "d")))

\* values a caller of ChangeThresholds(...) passes: any four boundaries, and
\* a stable band laid on the moderate boundaries or on zero
Boundaries == (0 - MaxThreshold)..MaxThreshold

ThresholdSets ==
    UNION { { [strong_loss |-> sl, moderate_loss |-> ml, stable_min |-> smin,
               stable_max |-> smax, moderate_gain |-> mg, strong_gain |-> sg] :
                sl \in Boundaries, sg \in Boundaries,
                smin \in {ml, 0}, smax \in {0, mg} } :
            ml \in Boundaries, mg \in Boundaries }

\* delta values of a pixel
Deltas == (0 - MaxDelta)..MaxDelta

\* ee.Image.where(test, value) at one pixel
Where(current, test, value) == IF test THEN value ELSE current

\* ee.Image.toUint8() at one pixel
ToUint8(x) == IF x < 0 THEN 0 ELSE IF x > 255 THEN 255 ELSE x

\* a classifier whose moderate gain class begins above the stable band
ClassifyAboveStable(delta, t) ==
    LET c0 == 3
        c1 == Where(c0, delta <= t.strong_loss, 1)
        c2 == Where(c1, delta > t.strong_loss /\ delta <= t.moderate_loss, 2)
        c3 == Where(c2, delta > t.stable_max /\ delta < t.strong_gain, 4)
        c4 == Where(c3, delta >= t.strong_gain, 5)
    IN ToUint8(c4)

\* a classifier whose moderate gain class excludes its lower boundary
ClassifyGainExclusive(delta, t) ==
    LET c0 == 3
        c1 == Where(c0, delta <= t.strong_loss, 1)
        c2 == Where(c1, delta > t.strong_loss /\ delta <= t.moderate_loss, 2)
        c3 == Where(c2, delta > t.moderate_gain /\ delta < t.strong_gain, 4)
        c4 == Where(c3, delta >= t.strong_gain, 5)
    IN ToUint8(c4)

\* ThresholdClassifier.classify at one pixel: constant 3, then the four
\* where() calls in program order
Classify(delta, t) ==
    LET c0 == 3
        c1 == Where(c0, delta <= t.strong_loss, 1)
        c2 == Where(c1, delta > t.strong_loss /\ delta <= t.moderate_loss, 2)
        c3 == Where(c2, delta >= t.moderate_gain /\ delta < t.strong_gain, 4)
        c4 == Where(c3, delta >= t.strong_gain, 5)
    IN ToUint8(c4)

\* range tests of which the first two share the boundary strong_loss
RangeTestsOverlapping(delta, t) ==
    << delta <= t.strong_loss,
       delta >= t.strong_loss /\ delta <= t.moderate_loss,
       delta >= t.moderate_gain /\ delta < t.strong_gain,
       delta >= t.strong_gain >>

\* the tests of the four where() calls of classify, in program order
RangeTests(delta, t) ==
    << delta <= t.strong_loss,
       delta > t.strong_loss /\ delta <= t.moderate_loss,
       delta >= t.moderate_gain /\ delta < t.strong_gain,
       delta >= t.strong_gain >>

\* the values of the four where() calls of classify, in program order
RangeValues == <<1, 2, 4, 5>>

\* the orders in which four where() calls can be made
CascadeOrders ==
    { o \in [1..4 -> 1..4] : \A i \in 1..4, j \in 1..4 : i # j => o[i] # o[j] }

\* classify at one pixel with its where() calls made in the order `order`
RECURSIVE Cascade(_, _, _, _)
Cascade(current, delta, t, order) ==
    IF order = <<>> THEN current
    ELSE Cascade(Where(current, RangeTests(delta, t)[Head(order)],
                       RangeValues[Head(order)]),
                 delta, t, Tail(order))

ClassifyInOrder(delta, t, order) == ToUint8(Cascade(3, delta, t, order))

(* ---------------------- engine: change detection ------------------------ *)
\* TEMPORAL_PERIODS: the period names
Periods == {"1990s", "2000s", "2010s", "present"}

\* the values in a list or the keys of a dict
SeqSet(s) == { s[i] : i \in DOMAIN s }

\* a Dict[str, ee.Image] is the sequence of its keys in insertion order:
\* composites maps of at most MaxPeriods periods
CompositeMaps ==
    { c \in UNION { [1..n -> Periods] : n \in 0..MaxPeriods } :
        \A i \in DOMAIN c, j \in DOMAIN c : i # j => c[i] # c[j] }

\* Optional[List[str]] indices: None, or a list of at most MaxIndices names
IndexLists ==
    { [none |-> TRUE, list |-> <<>>] } \cup
    { [none |-> FALSE, list |-> l] :
        l \in UNION { [1..n -> {"ndvi", "nbr"}] : n \in 0..MaxIndices } }

\* ee.Image.addBands: a band whose name is taken gets the suffix _1, _2, ...
RECURSIVE Rename(_, _, _)
Rename(have, name, k) ==
    LET candidate == IF k = 0 THEN name ELSE name \o "_" \o ToString(k)
    IN IF candidate \in have THEN Rename(have, name, k + 1) ELSE candidate

RECURSIVE AddBands(_, _)
AddBands(image, bands) ==
    IF bands = <<>> THEN image
    ELSE AddBands(Append(image, Rename(SeqSet(image), Head(bands), 0)), Tail(bands))

\* analyze_period_change: the bands of delta.addBands(classified)
AnalyzePeriodChange(index_name) ==
    AddBands(<<"d" \o index_name>>, <<"change_class">>)

\* combined = period_changes[0]; for change_img in period_changes[1:]: addBands
RECURSIVE Combine(_, _)
Combine(combined, rest) ==
    IF rest = <<>> THEN combined
    ELSE Combine(AddBands(combined, Head(rest)), Tail(rest))

\* a reference check that lets an empty composites map through
HasReferenceUnlessEmpty(composites, reference_period) ==
    composites = <<>> \/ reference_period \in SeqSet(composites)

\* not (reference_period not in composites)
HasReference(composites, reference_period) ==
    reference_period \in SeqSet(composites)

\* a loop that compares every period, the reference with itself too
ComparedPeriodsAll(composites, reference_period) == composites

\* for period_name in composites: if period_name == reference_period: continue
ComparedPeriods(composites, reference_period) ==
    SelectSeq(composites, LAMBDA p : p # reference_period)

\* create_change_analysis(composites, indices, reference_period): the
\* exception it raises, or the change_images dict as its entries in order
CreateChangeAnalysisResult(composites, indices, reference_period) ==
    LET ind == IF indices.none THEN <<"ndvi", "nbr">> ELSE indices.list
        compared == ComparedPeriods(composites, reference_period)
        period_changes == [j \in 1..Len(ind) |-> AnalyzePeriodChange(ind[j])]
    IN IF ~HasReference(composites, reference_period)
       THEN [raised |-> "ValueError", changes |-> <<>>]
       ELSE IF compared # <<>> /\ period_changes = <<>>
       THEN [raised |-> "IndexError", changes |-> <<>>]
       ELSE [raised |-> "",
             changes |-> [i \in 1..Len(compared) |->
                            [key |-> reference_period \o "_to_" \o compared[i],
                             comparison_period |-> compared[i],
                             bands |-> Combine(Head(period_changes),
                                               Tail(period_changes))]]]

\* period_order lists of at most MaxPeriods periods
PeriodLists == UNION { [1..n -> Periods] : n \in 0..MaxPeriods }

\* a test that lets a pair through when one of its periods has a composite
HasEither(composites, before_period, after_period) ==
    before_period \in SeqSet(composites) \/ after_period \in SeqSet(composites)

\* not (before_period not in composites or after_period not in composites)
HasBoth(composites, before_period, after_period) ==
    before_period \in SeqSet(composites) /\ after_period \in SeqSet(composites)

\* create_sequential_change(composites, period_order, index_name): the
\* change_images dict as its entries in order.  The loop takes the pairs
\* period_order[i], period_order[i + 1] in order, skips a pair that lacks a
\* composite and assigns change_images[key]; a key assigned again keeps its
\* place in the dict, and the value assigned is the same for the same key.
SequentialChanges(composites, period_order, index_name) ==
    LET n == Len(period_order) - 1
        Key(i) == period_order[i] \o "_to_" \o period_order[i + 1]
        Passed(i) == HasBoth(composites, period_order[i], period_order[i + 1])
        first == SelectSeq([i \in 1..n |-> i],
                           LAMBDA i : /\ Passed(i)
                                      /\ ~\E j \in 1..(i - 1) :
                                            Passed(j) /\ Key(j) = Key(i))
    IN [k \in 1..Len(first) |->
          [key |-> Key(first[k]),
           comparison_period |-> period_order[first[k] + 1],
           bands |-> AnalyzePeriodChange(index_name)]]

\* create_all_period_composites: composites[period_name] = composite for
\* each period of the list, so a repeated period keeps its first place
RECURSIVE DictKeys(_, _)
DictKeys(keys, periods) ==
    IF periods = <<>> THEN keys
    ELSE DictKeys(IF Head(periods) \in SeqSet(keys) THEN keys
                  ELSE Append(keys, Head(periods)), Tail(periods))

(* ------------------------- analyze: progress steps ---------------------- *)
\* ChangeOrchestrator.analyze: the update_progress calls in program order.
\* stage: 1 composites, 2 indices, 3 change analysis, 4 statistics.
\* call: the engine call made after the report, which may raise.
AnalyzeSteps ==
    << [progress |-> 0,     step |-> "Starting analysis",            stage |-> 0, call |-> ""],
       [progress |-> 500,   step |-> "Creating temporal composites", stage |-> 1,
        call |-> "create_all_period_composites"],
       [progress |-> 4000,  step |-> "Composites created",           stage |-> 1, call |-> ""],
       [progress |-> 4500,  step |-> "Calculating spectral indices", stage |-> 2,
        call |-> "add_all_indices"],
       [progress |-> 6000,  step |-> "Indices calculated",           stage |-> 2, call |-> ""],
       [progress |-> 6500,  step |-> "Analyzing vegetation change",  stage |-> 3,
        call |-> "create_change_analysis"],
       [progress |-> 8500,  step |-> "Change analysis complete",     stage |-> 3, call |-> ""],
       [progress |-> 9000,  step |-> "Generating statistics",        stage |-> 4,
        call |-> "generate_change_statistics"],
       [progress |-> 10000, step |-> "Analysis complete",            stage |-> 4, call |-> ""] >>

\* a callback that shifts the progress of analyze but does not scale it
ScaledProgressShiftOnly(progress) == 500 + progress

\* analyze_from_file.analysis_callback: 0.05 + (progress * 0.85)
ScaledProgress(progress) == 500 + (progress * 85) \div 100

\* analyze_from_file: its own reports around the scaled reports of analyze
FileSteps(export) ==
    << [progress |-> 0,   step |-> "Loading area of interest", stage |-> 0, call |-> "load_aoi"],
       [progress |-> 500, step |-> "AOI prepared",             stage |-> 0, call |-> ""] >>
    \o [i \in 1..Len(AnalyzeSteps) |->
          [AnalyzeSteps[i] EXCEPT !.progress = ScaledProgress(AnalyzeSteps[i].progress)]]
    \o (IF export
        THEN << [progress |-> 9200, step |-> "Starting exports", stage |-> 5,
                 call |-> "export_all_composites"] >>
        ELSE <<>>)
    \o << [progress |-> 10000, step |-> "Complete", stage |-> 5, call |-> ""] >>

\* how a runner was entered: run_job, or run_job_from_file with export off/on
Modes == {"run_job", "from_file", "from_file_export"}

Steps(mode) ==
    IF mode = "run_job" THEN AnalyzeSteps
    ELSE FileSteps(mode = "from_file_export")

\* str(e) of the exception an engine call raises
ExcMessage(call) == call \o " failed"

(* ----------------------- run_job: the store updates --------------------- *)
\* run_job / run_job_from_file: update(status=RUNNING, started_at=utcnow())
RunningKw(now) == << <<"status", RUNNING>>, <<"started_at", now>> >>

\* progress_callback: update(progress=progress, current_step=step)
ProgressKw(s) == << <<"progress", s.progress>>, <<"current_step", s.step>> >>

\* serializable_results of run_job / run_job_from_file
SerializableResults(mode) ==
    IF mode = "run_job" THEN "statistics,config" ELSE "statistics,aoi_centroid,aoi_area_ha"

\* kinds of Python values: the engine's handles are server-side objects that
\* hold no value until getInfo() evaluates them
EeImage == "ee.Image"
EeDictionary == "ee.Dictionary"
PlainKinds == {"float", "NoneType"}

\* generate_change_statistics(change_image, aoi, scale): returns what
\* reduceRegion returned, as it is
GenerateChangeStatistics(change_image) == EeDictionary

\* what analyze returns for the composites and change images it made: for
\* each key, the kinds of the values held under it
AnalyzeReturn(composites, changes) ==
    [composites |-> {EeImage : i \in DOMAIN composites},
     changes    |-> {EeImage : i \in DOMAIN changes},
     statistics |-> {GenerateChangeStatistics(changes[i]) : i \in DOMAIN changes},
     config     |-> {"VegChangeConfig"}]

\* serializable_results built from the results of analyze: for each key, the
\* kinds of the values held under it.  VegChangeConfig has no to_dict, so
\* run_job stores None as the config.
SerializableResultsKinds(mode, results) ==
    IF mode = "run_job"
    THEN [statistics |-> results.statistics, config |-> {"NoneType"}]
    ELSE [statistics |-> results.statistics, aoi_centroid |-> {"float"},
          aoi_area_ha |-> {"float"}]

\* a completion that forgets the completion time
CompletedKwNoTimestamp(mode, now) ==
    << <<"status", COMPLETED>>, <<"progress", ProgressUnit>>,
       <<"current_step", "Complete">>, <<"results", SerializableResults(mode)>> >>

\* update(status=COMPLETED, completed_at=..., progress=1.0, current_step=..., results=...)
CompletedKw(mode, now) ==
    << <<"status", COMPLETED>>, <<"completed_at", now>>, <<"progress", ProgressUnit>>,
       <<"current_step", "Complete">>, <<"results", SerializableResults(mode)>> >>

\* an except branch that records the error and leaves the status alone
FailedKwNoStatus(now, message) ==
    << <<"completed_at", now>>, <<"error", message>> >>

\* except Exception as e: update(status=FAILED, completed_at=..., error=str(e))
FailedKw(now, message) ==
    << <<"status", FAILED>>, <<"completed_at", now>>, <<"error", message>> >>

\* cancel_job: update(status=CANCELLED, completed_at=utcnow())
CancelledKw(now) == << <<"status", CANCELLED>>, <<"completed_at", now>> >>

\* a cancel_job that also accepts a job that has started
CancelAllowedWhileRunning(job) == job.status \in {PENDING, RUNNING}

\* cancel_job: job and job.status == AnalysisStatus.PENDING
CancelAllowed(job) == job.status = PENDING

(* ------------------------------- frames --------------------------------- *)
\* no engine object made and no engine function called
NoEngine ==
    [thresholds |-> <<>>, made_by |-> "", delta |-> 0, change_class |-> 0,
     call |-> "", composites |-> <<>>, indices |-> [none |-> TRUE, list |-> <<>>],
     reference_period |-> "", raised |-> "", changes |-> <<>>,
     period_order |-> <<>>, index_name |-> ""]

NoUse == [periods |-> <<>>, indices |-> <<>>, cloud_threshold |-> -1, export_scale |-> -1]

\* periods=config.periods, indices=config.indices: the arguments of analyze
ArgsRead(used, cfg) == [used EXCEPT !.periods = cfg.periods, !.indices = cfg.indices]

\* a runner outside run_job
IdleRun ==
    [pc |-> "idle", job_id |-> NoRef, job |-> NoRef, mode |-> "run_job", k |-> 0,
     exc |-> None, start |-> "absent", touched |-> FALSE, written |-> <<>>, used |-> NoUse]

\* the canceller outside cancel_job; `returned` is what its last call
\* cancel_job(job_id) returned
IdleCancel == [pc |-> "idle", job_id |-> NoRef, conc |-> FALSE, returned |-> None]

\* a caller that holds nothing
IdleReader == [refs |-> <<>>, snaps |-> <<>>]

NoHist ==
    [deleted |-> {}, evicted |-> {}, spared |-> FALSE, cfg_at_create |-> <<>>, runs |-> 0,
     scheduled |-> {}, rejected |-> {}]

Runners == DOMAIN run

\* another thread wrote to, or removed, the jobs `ids`: runners inside run_job
\* on one of them are no longer alone on their job
Touched(actor, ids) ==
    [r \in Runners |->
        IF r # actor /\ run[r].pc # "idle" /\ run[r].job_id \in ids
        THEN [run[r] EXCEPT !.touched = TRUE]
        ELSE run[r]]

\* another operation ran while cancel_job was between its call and its return
Disturbed ==
    IF cancel.pc = "checked" THEN [cancel EXCEPT !.conc = TRUE] ELSE cancel

\* the state after ChangeOrchestrator() / JobStore(max_jobs), with the bounds
\* of one specification
InitAt(capacities, threads, ids, runs, time) ==
    /\ heap = <<>>
    /\ jobs = {}
    /\ max_jobs \in capacities
    /\ clock = time
    /\ cfgHeap = <<>>
    /\ run = [r \in 1..threads |-> IdleRun]
    /\ cancel = IdleCancel
    /\ reader = IdleReader
    /\ hist = NoHist
    /\ lim = [ids |-> ids, runs |-> runs]
    /\ eng = NoEngine

\* the same with the clock at 0
InitWith(capacities, threads, ids, runs) == InitAt(capacities, threads, ids, runs, 0)

Init == InitWith({DefaultMaxJobs}, NumRunners, MaxJobs, MaxRuns)

(* ------------------------------ create_job ------------------------------ *)
\* ChangeOrchestrator.create_job -> JobStore.create (with _cleanup_old_jobs),
\* called with a config object whose contents are `value`
CreateJob(value) ==
    /\ FreshId <= lim.ids
    /\ \E now \in Now :
         LET job_id == FreshId
             removed == CleanupRemoved
         IN /\ heap' = heap @@ (job_id :> NewJob(job_id, job_id, now))
            /\ cfgHeap' = Append(cfgHeap, value)
            /\ jobs' = (jobs \ removed) \cup {job_id}
            /\ clock' = now
            /\ run' = Touched(0, removed)
            /\ hist' = [hist EXCEPT
                          !.evicted = @ \cup removed,
                          !.spared = @ \/ (removed # {} /\ \E j \in jobs :
                                             heap[j].status \in {PENDING, RUNNING}),
                          !.cfg_at_create = Append(@, value)]
    /\ cancel' = Disturbed
    /\ UNCHANGED <<max_jobs, reader, lim, eng>>

\* JobStore.delete: return True if job_id was in self._jobs, else False
DeleteReturns(job_id) == job_id \in jobs

\* JobStore.delete
Delete(job_id) ==
    /\ jobs' = jobs \ {job_id}
    /\ hist' = [hist EXCEPT !.deleted = @ \cup ({job_id} \cap jobs)]
    /\ run' = Touched(0, {job_id} \cap jobs)
    /\ cancel' = Disturbed
    /\ UNCHANGED <<heap, max_jobs, clock, cfgHeap, reader, lim, eng>>

\* keyword arguments a client passes to JobStore.update
UpdateKws ==
    { << <<"status", st>> >> : st \in AnalysisStatus } \cup { << <<"priority", 1>> >> }

\* JobStore.update called by a client of the store
Update(job_id) ==
    /\ \E kw \in UpdateKws : heap' = StoreUpdate(job_id, kw)
    /\ run' = Touched(0, {job_id} \cap jobs)
    /\ cancel' = Disturbed
    /\ UNCHANGED <<jobs, max_jobs, clock, cfgHeap, reader, hist, lim, eng>>

(* -------------------------------- run_job ------------------------------- *)
\* run_job / run_job_from_file: job = self.job_store.get(job_id); if not job: return
RunJobGet(r, job_id, mode) ==
    /\ run[r].pc \in {"idle", "returned", "raised"}
    /\ hist.runs < lim.runs
    /\ hist' = [hist EXCEPT !.runs = @ + 1]
    /\ run' = [run EXCEPT ![r] =
                 IF job_id \in jobs
                 THEN [IdleRun EXCEPT !.pc = "got", !.job_id = job_id, !.job = job_id,
                                      !.mode = mode, !.start = heap[job_id].status]
                 ELSE [IdleRun EXCEPT !.pc = "returned", !.job_id = job_id, !.mode = mode]]
    /\ cancel' = Disturbed
    /\ UNCHANGED <<heap, jobs, max_jobs, clock, cfgHeap, reader, lim, eng>>

\* update(status=RUNNING, started_at=utcnow()), then the call of analyze or
\* analyze_from_file.  run_job reads job.config.periods and job.config.indices
\* from the job object it holds to pass them to analyze.
RunJobStart(r) ==
    /\ run[r].pc = "got"
    /\ \E now \in Now :
         /\ heap' = StoreUpdate(run[r].job_id, RunningKw(now))
         /\ clock' = now
    /\ LET cfg == cfgHeap[heap[run[r].job].config]
       IN run' = [Touched(r, {run[r].job_id}) EXCEPT
                    ![r] = [run[r] EXCEPT !.pc = "analyze", !.k = 0,
                                          !.used = IF run[r].mode = "run_job"
                                                   THEN ArgsRead(NoUse, cfg)
                                                   ELSE NoUse]]
    /\ cancel' = Disturbed
    /\ UNCHANGED <<jobs, max_jobs, cfgHeap, reader, hist, lim, eng>>

\* analyze_from_file reads config.periods and config.indices when it calls
\* analyze, whose first report is `s`
UsedAtCall(used, mode, s, cfg) ==
    IF mode # "run_job" /\ s.step = "Starting analysis" THEN ArgsRead(used, cfg) ELSE used

\* the config fields analyze reads for the engine call `call`
UsedAfter(used, call, cfg) ==
    IF call = "create_all_period_composites"
    THEN [used EXCEPT !.cloud_threshold = cfg.cloud_threshold]
    ELSE IF call = "generate_change_statistics"
    THEN [used EXCEPT !.export_scale = cfg.export_scale]
    ELSE used

\* the engine call pending after report k (if any) returns, and the next
\* update_progress reaches the store through progress_callback
RunProgress(r) ==
    /\ run[r].pc = "analyze"
    /\ run[r].k < Len(Steps(run[r].mode))
    /\ LET s == Steps(run[r].mode)[run[r].k + 1]
           call == IF run[r].k = 0 THEN "" ELSE Steps(run[r].mode)[run[r].k].call
           cfg == cfgHeap[heap[run[r].job].config]
       IN /\ heap' = StoreUpdate(run[r].job_id, ProgressKw(s))
          /\ run' = [Touched(r, {run[r].job_id}) EXCEPT
                       ![r] = [run[r] EXCEPT
                                 !.k = @ + 1,
                                 !.used = UsedAfter(UsedAtCall(@, run[r].mode, s, cfg), call, cfg),
                                 !.written = IF run[r].job_id \in jobs
                                             THEN Append(@, [progress |-> s.progress,
                                                             stage |-> s.stage])
                                             ELSE @]]
    /\ cancel' = Disturbed
    /\ UNCHANGED <<jobs, max_jobs, clock, cfgHeap, reader, hist, lim, eng>>

\* analyze returned: update(status=COMPLETED, ...), run_job returns
RunComplete(r) ==
    /\ run[r].pc = "analyze"
    /\ run[r].k = Len(Steps(run[r].mode))
    /\ \E now \in Now :
         /\ heap' = StoreUpdate(run[r].job_id, CompletedKw(run[r].mode, now))
         /\ clock' = now
    /\ run' = [Touched(r, {run[r].job_id}) EXCEPT
                 ![r] = [run[r] EXCEPT
                           !.pc = "returned", !.k = 0, !.used = NoUse,
                           !.written = IF run[r].job_id \in jobs
                                       THEN Append(@, [progress |-> ProgressUnit, stage |-> 5])
                                       ELSE @]]
    /\ cancel' = Disturbed
    /\ UNCHANGED <<jobs, max_jobs, cfgHeap, reader, hist, lim, eng>>

\* the engine call pending after report k raises: update(status=FAILED, ...); raise
RunRaise(r) ==
    /\ run[r].pc = "analyze"
    /\ run[r].k >= 1
    /\ Steps(run[r].mode)[run[r].k].call # ""
    /\ LET message == ExcMessage(Steps(run[r].mode)[run[r].k].call)
       IN /\ \E now \in Now :
               /\ heap' = StoreUpdate(run[r].job_id, FailedKw(now, message))
               /\ clock' = now
          /\ run' = [Touched(r, {run[r].job_id}) EXCEPT
                       ![r] = [run[r] EXCEPT !.pc = "raised", !.k = 0, !.used = NoUse,
                                             !.exc = message]]
    /\ cancel' = Disturbed
    /\ UNCHANGED <<jobs, max_jobs, cfgHeap, reader, hist, lim, eng>>

(* ------------------------------ cancel_job ------------------------------ *)
\* job = self.job_store.get(job_id); if job and job.status == PENDING: ...
\* else: return False.  get hands out the job object itself and the status is
\* read from that object, so the two are one step: a write or a removal that
\* falls between them is seen exactly as one that falls before get or after
\* the read.
CancelGet(job_id) ==
    /\ cancel.pc = "idle"
    /\ cancel' = IF job_id \in jobs /\ CancelAllowed(heap[job_id])
                 THEN [IdleCancel EXCEPT !.pc = "checked", !.job_id = job_id]
                 ELSE [IdleCancel EXCEPT !.job_id = job_id, !.returned = "False"]
    /\ UNCHANGED <<heap, jobs, max_jobs, clock, cfgHeap, run, reader, hist, lim, eng>>

\* update(status=CANCELLED, completed_at=utcnow()); return True
CancelUpdate ==
    /\ cancel.pc = "checked"
    /\ \E now \in Now :
         /\ heap' = StoreUpdate(cancel.job_id, CancelledKw(now))
         /\ clock' = now
    /\ cancel' = [cancel EXCEPT !.pc = "idle", !.returned = "True"]
    /\ run' = Touched(0, {cancel.job_id})
    /\ UNCHANGED <<jobs, max_jobs, cfgHeap, reader, hist, lim, eng>>

(* ------------------------- get_job and list_jobs ------------------------ *)
\* ChangeOrchestrator.get_job -> JobStore.get: the job object, or None
GetJob(job_id) ==
    /\ reader' = IF StoreGet(job_id) # NoRef
                 THEN [refs |-> <<StoreGet(job_id)>>, snaps |-> <<heap[job_id]>>]
                 ELSE IdleReader
    /\ cancel' = Disturbed
    /\ UNCHANGED <<heap, jobs, max_jobs, clock, cfgHeap, run, hist, lim, eng>>

\* jobs.sort(key=created_at, reverse=True): stable, so equal keys keep the
\* insertion order of the dict, which is the order of the ids
RECURSIVE SortCreatedDesc(_)
SortCreatedDesc(S) ==
    IF S = {} THEN <<>>
    ELSE LET m == CHOOSE x \in S : \A y \in S :
                     \/ heap[x].created_at > heap[y].created_at
                     \/ heap[x].created_at = heap[y].created_at /\ x <= y
         IN <<m>> \o SortCreatedDesc(S \ {m})

\* JobStore.list_jobs(status, limit): the job objects, filtered, sorted, cut
ListedJobs(status, limit) ==
    LET sorted == SortCreatedDesc({ j \in jobs : status = None \/ heap[j].status = status })
    IN SubSeq(sorted, 1, IF limit < Len(sorted) THEN limit ELSE Len(sorted))

\* ChangeOrchestrator.list_jobs
ListJobs(status, limit) ==
    /\ LET listed == ListedJobs(status, limit)
       IN reader' = [refs |-> listed,
                     snaps |-> [i \in 1..Len(listed) |-> heap[listed[i]]]]
    /\ cancel' = Disturbed
    /\ UNCHANGED <<heap, jobs, max_jobs, clock, cfgHeap, run, hist, lim, eng>>

(* --------------------------- the caller's config ------------------------ *)
\* the caller assigns to fields of a VegChangeConfig it passed to create_job
MutateConfig(config, value) ==
    /\ cfgHeap[config] # value
    /\ cfgHeap' = [cfgHeap EXCEPT ![config] = value]
    /\ UNCHANGED <<heap, jobs, max_jobs, clock, run, cancel, reader, hist, lim, eng>>

(* ------------------------- POST /analysis route ------------------------- *)
\* create_analysis after its call of create_job: get_job, then
\* request_to_aoi; if the AOI converts the route schedules run_job as a
\* background task, if it raises the route answers 400 and schedules nothing
CreateAnalysis(job_id, aoi_valid) ==
    /\ job_id \in DOMAIN heap
    /\ job_id \notin hist.scheduled \cup hist.rejected
    /\ hist' = IF aoi_valid
               THEN [hist EXCEPT !.scheduled = @ \cup {job_id}]
               ELSE [hist EXCEPT !.rejected = @ \cup {job_id}]
    /\ cancel' = Disturbed
    /\ UNCHANGED <<heap, jobs, max_jobs, clock, cfgHeap, run, reader, lim, eng>>

(* ---------------------- engine.change.thresholds ------------------------ *)
\* ChangeThresholds(...): the dataclass stores the six values it is given
NewThresholds(t) ==
    /\ eng.thresholds = <<>>
    /\ eng' = [NoEngine EXCEPT !.thresholds = <<t>>, !.made_by = "ChangeThresholds"]
    /\ UNCHANGED orch

\* ChangeThresholds.from_config(index_name)
FromConfig(index_name) ==
    /\ eng.thresholds = <<>>
    /\ eng' = [NoEngine EXCEPT !.thresholds = <<ConfiguredThresholds(index_name)>>,
                               !.made_by = "from_config"]
    /\ UNCHANGED orch

\* analyze_period_change(before, after, index_name) up to the classifier it
\* makes; no statement on the way raises
ClassifyChange(index) ==
    /\ eng.thresholds = <<>>
    /\ eng' = [NoEngine EXCEPT !.thresholds = <<DefaultThresholds(index)>>,
                               !.made_by = "classify_change",
                               !.index_name = Str(index)]
    /\ UNCHANGED orch

\* ThresholdClassifier(thresholds).classify(delta_image), at a pixel whose
\* delta is `delta`
ClassifyDelta(delta) ==
    /\ eng.thresholds # <<>>
    /\ eng' = [eng EXCEPT !.delta = delta,
                          !.change_class = Classify(delta, eng.thresholds[1])]
    /\ UNCHANGED orch

(* ----------------------- engine.change.detection ------------------------ *)
\* create_change_analysis(composites, indices, reference_period)
CreateChangeAnalysis(composites, indices, reference_period) ==
    /\ eng = NoEngine
    /\ LET result == CreateChangeAnalysisResult(composites, indices, reference_period)
       IN eng' = [eng EXCEPT !.call = "create_change_analysis",
                             !.composites = composites,
                             !.indices = indices,
                             !.reference_period = reference_period,
                             !.raised = result.raised,
                             !.changes = result.changes]
    /\ UNCHANGED orch

\* ChangeOrchestrator.analyze(aoi, periods, indices, reference_period) up to
\* its call of create_change_analysis: composites for the periods, the
\* indices added to each, then the change analysis; analyze catches nothing
AnalyzeChanges(periods, indices, reference_period) ==
    /\ eng = NoEngine
    /\ LET composites == DictKeys(<<>>, periods)
           ind == [none |-> FALSE,
                   list |-> IF indices.none THEN DefaultCfgValue.indices
                            ELSE indices.list]
           result == CreateChangeAnalysisResult(composites, ind, reference_period)
       IN eng' = [eng EXCEPT !.call = "analyze",
                             !.composites = composites,
                             !.indices = ind,
                             !.reference_period = reference_period,
                             !.raised = result.raised,
                             !.changes = result.changes]
    /\ UNCHANGED orch

\* create_sequential_change(composites, period_order, index_name)
CreateSequentialChange(composites, period_order, index_name) ==
    /\ eng = NoEngine
    /\ eng' = [eng EXCEPT !.call = "create_sequential_change",
                          !.composites = composites,
                          !.period_order = period_order,
                          !.index_name = index_name,
                          !.changes = SequentialChanges(composites, period_order,
                                                        index_name)]
    /\ UNCHANGED orch

(* ------------------------------ specifications -------------------------- *)
JobIds == 1..lim.ids

\* the orchestrator under create_job, run_job, run_job_from_file, cancel_job
Next ==
    \/ CreateJob(DefaultCfgValue)
    \/ \E r \in Runners, j \in JobIds, m \in Modes : RunJobGet(r, j, m)
    \/ \E r \in Runners : RunJobStart(r)
    \/ \E r \in Runners : RunProgress(r)
    \/ \E r \in Runners : RunComplete(r)
    \/ \E r \in Runners : RunRaise(r)
    \/ \E j \in JobIds : CancelGet(j)
    \/ CancelUpdate

Spec == Init /\ [][Next]_vars

\* runs of jobs
InitRun == InitWith({DefaultMaxJobs}, RunThreads, RunJobs, RunCalls)

NextRun ==
    \/ CreateJob(DefaultCfgValue)
    \/ \E r \in Runners, j \in JobIds, m \in Modes : RunJobGet(r, j, m)
    \/ \E r \in Runners : RunJobStart(r)
    \/ \E r \in Runners : RunProgress(r)
    \/ \E r \in Runners : RunComplete(r)
    \/ \E r \in Runners : RunRaise(r)

SpecRun == InitRun /\ [][NextRun]_vars

\* runs of jobs watched by a caller of get_job / list_jobs
NextReader ==
    \/ CreateJob(DefaultCfgValue)
    \/ \E r \in Runners, j \in JobIds, m \in Modes : RunJobGet(r, j, m)
    \/ \E r \in Runners : RunJobStart(r)
    \/ \E r \in Runners : RunProgress(r)
    \/ \E r \in Runners : RunComplete(r)
    \/ \E r \in Runners : RunRaise(r)
    \/ \E j \in JobIds : GetJob(j)
    \/ \E st \in AnalysisStatus \cup {None}, n \in {1, DefaultLimit} : ListJobs(st, n)

SpecReader == InitRun /\ [][NextReader]_vars

\* runs of jobs whose caller keeps writing to the config it passed
NextConfig ==
    \/ CreateJob(DefaultCfgValue)
    \/ \E r \in Runners, j \in JobIds, m \in Modes : RunJobGet(r, j, m)
    \/ \E r \in Runners : RunJobStart(r)
    \/ \E r \in Runners : RunProgress(r)
    \/ \E r \in Runners : RunComplete(r)
    \/ \E r \in Runners : RunRaise(r)
    \/ \E c \in DOMAIN cfgHeap, v \in CfgValues : MutateConfig(c, v)

SpecConfig == InitRun /\ [][NextConfig]_vars

\* a JobStore(max_jobs) that fills up under its own operations
InitStore == InitWith({StoreCapacity}, 0, MaxStoreJobs, 0)

NextStore ==
    \/ CreateJob(DefaultCfgValue)
    \/ \E j \in JobIds : Update(j)
    \/ \E j \in JobIds : Delete(j)

SpecStore == InitStore /\ [][NextStore]_vars

\* cancel_job on jobs that the store operations bring into any status
InitCancel == InitWith({DefaultMaxJobs}, 0, CancelJobs, 0)

NextCancel ==
    \/ CreateJob(DefaultCfgValue)
    \/ \E j \in JobIds : Update(j)
    \/ \E j \in JobIds : Delete(j)
    \/ \E j \in JobIds : CancelGet(j)
    \/ CancelUpdate

SpecCancel == InitCancel /\ [][NextCancel]_vars

\* the store under create, update and delete, and get_job, cancel_job,
\* run_job and run_job_from_file called for ids that are not in it
InitAbsent == InitWith(1..StoreCapacity, AbsentThreads, AbsentJobs, AbsentRuns)

NextAbsent ==
    \/ CreateJob(DefaultCfgValue)
    \/ \E j \in JobIds : Update(j)
    \/ \E j \in JobIds : Delete(j)
    \/ \E j \in JobIds \ jobs : GetJob(j)
    \/ \E j \in JobIds \ jobs : CancelGet(j)
    \/ \E r \in Runners, j \in JobIds \ jobs, m \in Modes : RunJobGet(r, j, m)

SpecAbsent == InitAbsent /\ [][NextAbsent]_vars

\* a JobStore that is full of jobs that run_job has finished: job i was
\* created at time 0, ran, and completed (odd i) or failed (even i); the
\* latest EvictVaried jobs finished at any times, the jobs before them at one
\* time; then create is called
FinishedJob(job_id, now) ==
    ApplyKw(ApplyKw(NewJob(job_id, job_id, 0), RunningKw(0)),
            IF job_id % 2 = 1
            THEN CompletedKw("run_job", now)
            ELSE FailedKw(now, ExcMessage("create_all_period_composites")))

\* `waiting`: the sets of jobs that may still be PENDING
FullStore(capacities, waiting) ==
    /\ \E earlier \in 0..MaxTime, pending \in waiting :
       \E finished \in [(CleanupMargin + EvictExtra - EvictVaried + 1)
                          ..(CleanupMargin + EvictExtra) -> 0..MaxTime] :
         heap = [i \in 1..(CleanupMargin + EvictExtra) |->
                    IF i \in pending THEN NewJob(i, i, 0)
                    ELSE FinishedJob(i, IF i \in DOMAIN finished
                                        THEN finished[i] ELSE earlier)]
    /\ jobs = DOMAIN heap
    /\ max_jobs \in capacities
    /\ clock = MaxTime
    /\ cfgHeap = [i \in DOMAIN heap |-> DefaultCfgValue]
    /\ run = <<>>
    /\ cancel = IdleCancel
    /\ reader = IdleReader
    /\ hist = [NoHist EXCEPT !.cfg_at_create = cfgHeap]
    /\ lim = [ids |-> CleanupMargin + EvictExtra + 1, runs |-> 0]
    /\ eng = NoEngine

InitEvict == FullStore(CleanupMargin..(CleanupMargin + EvictExtra), {{}})

NextEvict == CreateJob(DefaultCfgValue)

SpecEvict == InitEvict /\ [][NextEvict]_vars

\* run_job in several threads at once, each thread on a job of its own; the
\* clock stands at its last value, so every timestamp written is the same
InitConc == InitAt({DefaultMaxJobs}, ConcThreads, ConcJobs, ConcThreads, MaxTime)

NextConc ==
    \/ CreateJob(DefaultCfgValue)
    \/ \E r \in Runners, j \in jobs :
         /\ run[r].pc = "idle"
         /\ \A other \in Runners : run[other].job_id # j
         /\ RunJobGet(r, j, "run_job")
    \/ \E r \in Runners : RunJobStart(r)
    \/ \E r \in Runners : RunProgress(r)
    \/ \E r \in Runners : RunComplete(r)
    \/ \E r \in Runners : RunRaise(r)

SpecConc == InitConc /\ [][NextConc]_vars

\* create on a store below, at and over its capacity, all of its jobs
\* finished or the first one still PENDING
InitCreate ==
    FullStore((CleanupMargin - 1)..(CleanupMargin + EvictExtra + 1), {{}, {1}})

SpecCreate == InitCreate /\ [][NextEvict]_vars

\* how a job is run: jobs with odd ids are run by run_job, jobs with even
\* ids, made for an AOI file, by run_job_from_file
JobMode(job_id) == IF job_id % 2 = 1 THEN "run_job" ELSE "from_file"

\* runs of jobs, one call at a time on each job, that a client may delete
\* between the get of run_job and its first update or between the last
\* report of the analysis and the last update.  A thread inside
\* run_job goes on running, and the analysis it called returns or raises:
\* each step of a run that can be taken is taken in the end.  The clock stands
\* at its last value.
InitLive == InitAt({DefaultMaxJobs}, LiveThreads, LiveJobs, LiveThreads, MaxTime)

NextLive ==
    \/ CreateJob(DefaultCfgValue)
    \/ \E r \in Runners, j \in jobs :
         /\ run[r].pc = "idle"
         /\ \A o \in Runners : run[o].pc \in {"got", "analyze"} => run[o].job_id # j
         /\ RunJobGet(r, j, JobMode(j))
    \/ \E r \in Runners : RunJobStart(r)
    \/ \E r \in Runners : RunProgress(r)
    \/ \E r \in Runners : RunComplete(r)
    \/ \E r \in Runners : RunRaise(r)
    \/ \E j \in { run[r].job_id :
                  r \in { o \in Runners :
                            \/ run[o].pc = "got"
                            \/ /\ run[o].pc = "analyze"
                               /\ run[o].k = Len(Steps(run[o].mode)) } } :
         Delete(j)

SpecLive ==
    /\ InitLive
    /\ [][NextLive]_vars
    /\ \A r \in 1..LiveThreads :
         /\ WF_vars(RunJobStart(r))
         /\ WF_vars(RunProgress(r) \/ RunComplete(r) \/ RunRaise(r))

\* jobs submitted through POST /analysis: create_job, then the AOI is
\* converted and run_job runs as the background task of the jobs scheduled
InitAsync == InitWith({DefaultMaxJobs}, RunThreads, AsyncJobs, RunCalls)

NextAsync ==
    \/ CreateJob(DefaultCfgValue)
    \/ \E j \in JobIds, v \in BOOLEAN : CreateAnalysis(j, v)
    \/ \E r \in Runners, j \in hist.scheduled : RunJobGet(r, j, "run_job")
    \/ \E r \in Runners : RunJobStart(r)
    \/ \E r \in Runners : RunProgress(r)
    \/ \E r \in Runners : RunComplete(r)
    \/ \E r \in Runners : RunRaise(r)

SpecAsync == InitAsync /\ [][NextAsync]_vars

\* the classifier: one ChangeThresholds is made, then deltas are classified
\* with it
InitClassify == InitWith({DefaultMaxJobs}, 0, 0, 0)

NextClassify ==
    \/ eng.thresholds = <<>> /\ \E t \in ThresholdSets : NewThresholds(t)
    \/ \E i \in IndexNames : FromConfig(i)
    \/ \E x \in RegistryIndices : ClassifyChange(x)
    \/ \E d \in Deltas : ClassifyDelta(d)

SpecClassify == InitClassify /\ [][NextClassify]_vars

\* change detection: one call of create_change_analysis or of analyze
NextChange ==
    \/ \E c \in CompositeMaps, i \in IndexLists, r \in Periods :
         CreateChangeAnalysis(c, i, r)
    \/ \E p \in CompositeMaps, i \in IndexLists, r \in Periods :
         AnalyzeChanges(p, i, r)

SpecChange == InitClassify /\ [][NextChange]_vars

\* sequential change: one call of create_sequential_change
NextSequential ==
    /\ eng = NoEngine
    /\ \E c \in CompositeMaps, o \in PeriodLists, x \in {"ndvi", "nbr"} :
         CreateSequentialChange(c, o, x)

SpecSequential == InitClassify /\ [][NextSequential]_vars

(* ================================ claims ================================ *)

\* the transitions of the job status state machine
AllowedTransition ==
    { <<PENDING, RUNNING>>, <<RUNNING, COMPLETED>>, <<RUNNING, FAILED>>,
      <<PENDING, CANCELLED>> }

\* C1: across any sequence of create_job, run_job and cancel_job calls, every
\* change of a job's status is PENDING->RUNNING, RUNNING->COMPLETED,
\* RUNNING->FAILED or PENDING->CANCELLED; a terminal status is never left.
StatusStateMachine ==
    [][\A id \in DOMAIN heap :
          heap'[id].status # heap[id].status
          => <<heap[id].status, heap'[id].status>> \in AllowedTransition]_vars

\* C2: cancel_job(id) with no concurrent operation on the store: on a PENDING
\* job it goes on to return True and leaves the job CANCELLED; on a job in
\* any other status, or on an unknown id, it returns False and no job and no
\* field of a job changes.
CancelSemantics ==
    [][/\ (cancel.pc = "idle" /\ cancel' # cancel)
          => LET id == cancel'.job_id
             IN IF id \in jobs /\ heap[id].status = PENDING
                THEN cancel'.pc = "checked"
                ELSE /\ cancel'.pc = "idle"
                     /\ cancel'.returned = "False"
                     /\ heap' = heap
                     /\ jobs' = jobs
       /\ (cancel.pc = "checked" /\ cancel'.pc = "idle" /\ ~cancel.conc)
          => /\ cancel'.returned = "True"
             /\ cancel.job_id \in jobs'
             /\ heap'[cancel.job_id].status = CANCELLED
             /\ \A id \in DOMAIN heap \ {cancel.job_id} : heap'[id] = heap[id]]_vars

\* C2 witness: an undisturbed cancel_job returned True and the job is CANCELLED
CancelSemanticsWitness ==
    /\ cancel.pc = "idle"
    /\ cancel.returned = "True"
    /\ ~cancel.conc
    /\ cancel.job_id \in jobs
    /\ heap[cancel.job_id].status = CANCELLED

\* C3: a run_job that is invoked on a job that cancel_job has cancelled does
\* not invoke analyze and leaves the job as it was: status CANCELLED, no
\* started_at, no progress, no results, no error.
CancelledNeverRuns ==
    \A r \in Runners :
        (run[r].pc # "idle" /\ run[r].start = CANCELLED)
        => /\ run[r].pc \notin {"analyze", "raised"}
           /\ LET job == heap[run[r].job_id]
              IN /\ job.status = CANCELLED
                 /\ job.started_at = NoTime
                 /\ job.progress = 0
                 /\ job.results = None
                 /\ job.error = None

\* C4: a cancel_job and a run_job on the same job have one winner: when
\* cancel_job has returned True the job is not running and has not run, and
\* no step takes a job from RUNNING, COMPLETED or FAILED to CANCELLED or from
\* CANCELLED to RUNNING.
CancelRunOneWinner ==
    [][/\ (cancel'.pc = "idle" /\ cancel'.returned = "True")
          => heap'[cancel'.job_id].status \notin {RUNNING, COMPLETED, FAILED}
       /\ \A id \in DOMAIN heap :
            /\ ~(heap[id].status \in {RUNNING, COMPLETED, FAILED}
                 /\ heap'[id].status = CANCELLED)
            /\ ~(heap[id].status = CANCELLED /\ heap'[id].status = RUNNING)]_vars

\* C5: a job that is PENDING or RUNNING and was not removed with delete is in
\* the store, whatever creates and updates have happened.
ActiveNeverEvicted ==
    \A id \in DOMAIN heap :
        (heap[id].status \in {PENDING, RUNNING} /\ id \notin hist.deleted)
        => id \in jobs

\* C5 witness: a create evicted a job while a PENDING or RUNNING job was in
\* the store, and a PENDING or RUNNING job is still there
ActiveNeverEvictedWitness ==
    /\ hist.spared
    /\ hist.evicted # {}
    /\ \E id \in jobs : heap[id].status \in {PENDING, RUNNING}

\* C6: when run_job on a PENDING job has returned normally and nothing else
\* touched the job, the job is COMPLETED with progress 1.0, results set,
\* error unset, started_at and completed_at set, started_at <= completed_at.
RunJobPostcondition ==
    \A r \in Runners :
        (run[r].pc = "returned" /\ run[r].start = PENDING /\ ~run[r].touched)
        => /\ run[r].job_id \in jobs
           /\ LET job == heap[run[r].job_id]
              IN /\ job.status = COMPLETED
                 /\ job.progress = ProgressUnit
                 /\ job.results # None
                 /\ job.error = None
                 /\ job.started_at # NoTime
                 /\ job.completed_at # NoTime
                 /\ job.started_at <= job.completed_at

\* C6 witness: a run_job on a PENDING job returned and the job was left alone
RunJobPostconditionWitness ==
    \E r \in Runners :
        run[r].pc = "returned" /\ run[r].start = PENDING /\ ~run[r].touched

\* C7: when analyze (or analyze_from_file) raised during run_job and nothing
\* else touched the job, the job is FAILED with completed_at set, error equal
\* to the non-empty message of the exception and results unset, and run_job
\* has raised that exception.
RunJobFailure ==
    \A r \in Runners :
        (run[r].pc = "raised" /\ ~run[r].touched /\ run[r].job_id \in jobs)
        => LET job == heap[run[r].job_id]
           IN /\ job.status = FAILED
              /\ job.completed_at # NoTime
              /\ run[r].exc # ""
              /\ job.error = run[r].exc
              /\ job.results = None

\* C8: the progress values one execution of run_job or run_job_from_file
\* writes to the job in the store are non-decreasing, lie in [0, 1] and follow
\* the stage order composites, indices, change analysis, statistics; a
\* successful execution passes all four stages and ends at 1.0.
ProgressMonotone ==
    \A r \in Runners :
        LET w == run[r].written
        IN /\ \A i \in 1..Len(w) : w[i].progress >= 0 /\ w[i].progress <= ProgressUnit
           /\ \A i \in 1..(Len(w) - 1) :
                w[i].progress <= w[i + 1].progress /\ w[i].stage <= w[i + 1].stage
           /\ (run[r].pc = "returned" /\ run[r].start # "absent" /\ run[r].job_id \in jobs)
              => /\ w # <<>>
                 /\ w[Len(w)].progress = ProgressUnit
                 /\ \A st \in 1..4 : \E i \in 1..Len(w) : w[i].stage = st

\* C8 witness: a run_job_from_file with exports returned with every report
\* of analyze_from_file and the final update in the store
ProgressMonotoneWitness ==
    \E r \in Runners :
        /\ run[r].pc = "returned"
        /\ run[r].mode = "from_file_export"
        /\ Len(run[r].written) = Len(Steps(run[r].mode)) + 1

\* C9: a record returned by get_job or list_jobs is a snapshot: whatever is
\* written to the store afterwards, the caller still reads in it what it
\* read when it was returned.
ReturnedRecordIsSnapshot ==
    \A i \in 1..Len(reader.refs) : heap[reader.refs[i]] = reader.snaps[i]

\* C10: the configuration of a job is fixed at create_job: what analyze
\* reads of the job's config (periods, indices, cloud_threshold,
\* export_scale) is what the config held when create_job was called.
ConfigFixedAtCreate ==
    \A r \in Runners :
        run[r].pc = "analyze"
        => LET at_create == hist.cfg_at_create[run[r].job_id]
               used == run[r].used
           IN /\ used.periods \in {<<>>, at_create.periods}
              /\ used.indices \in {<<>>, at_create.indices}
              /\ used.cloud_threshold \in {-1, at_create.cloud_threshold}
              /\ used.export_scale \in {-1, at_create.export_scale}

SpecifiedClass(delta, t) ==
    IF delta <= t.strong_loss THEN 1
    ELSE IF delta <= t.moderate_loss THEN 2
    ELSE IF delta < t.moderate_gain THEN 3
    ELSE IF delta < t.strong_gain THEN 4
    ELSE 5

\* strong_loss < moderate_loss < moderate_gain < strong_gain
BoundariesOrdered(t) ==
    /\ t.strong_loss < t.moderate_loss
    /\ t.moderate_loss < t.moderate_gain
    /\ t.moderate_gain < t.strong_gain

\* strong_loss < moderate_loss <= stable_min <= stable_max < moderate_gain
\* < strong_gain
ThresholdsOrdered(t) ==
    /\ t.strong_loss < t.moderate_loss
    /\ t.moderate_loss <= t.stable_min
    /\ t.stable_min <= t.stable_max
    /\ t.stable_max < t.moderate_gain
    /\ t.moderate_gain < t.strong_gain

\* C12: under thresholds with strong_loss < moderate_loss < moderate_gain <
\* strong_gain, classify gives every delta exactly the class in 1..5 of the
\* interval it lies in; delta = moderate_gain gives 4, delta = strong_gain 5.
ClassifyPartition ==
    (eng.change_class # 0 /\ BoundariesOrdered(eng.thresholds[1]))
    => /\ eng.change_class \in 1..5
       /\ eng.change_class = SpecifiedClass(eng.delta, eng.thresholds[1])

\* C12 witness: a delta equal to moderate_gain was classified 4 under
\* ordered thresholds
ClassifyPartitionWitness ==
    /\ eng.change_class = 4
    /\ BoundariesOrdered(eng.thresholds[1])
    /\ eng.delta = eng.thresholds[1].moderate_gain

\* C13: every ChangeThresholds that from_config returns, which is every
\* threshold set in CHANGE_THRESHOLDS, has strong_loss < moderate_loss <=
\* stable_min <= stable_max < moderate_gain < strong_gain.
ConfiguredThresholdsOrdered ==
    eng.made_by = "from_config" => ThresholdsOrdered(eng.thresholds[1])

\* C14: a ChangeThresholds whose boundaries are out of order cannot be
\* constructed, so none exists and none is classified with.
MisorderedThresholdsRejected ==
    eng.made_by = "ChangeThresholds" => ThresholdsOrdered(eng.thresholds[1])

\* C15: when composites contains reference_period and indices is not empty,
\* create_change_analysis returns exactly one entry per period other than
\* the reference, keyed "<reference>_to_<period>", and none for the reference
\* against itself.
ComparisonMatrix ==
    (/\ eng.call = "create_change_analysis"
     /\ eng.reference_period \in SeqSet(eng.composites)
     /\ (eng.indices.none \/ eng.indices.list # <<>>))
    => /\ eng.raised = ""
       /\ Len(eng.changes) = Len(eng.composites) - 1
       /\ \A p \in SeqSet(eng.composites) \ {eng.reference_period} :
            Cardinality({ i \in DOMAIN eng.changes :
                           eng.changes[i].key = eng.reference_period \o "_to_" \o p }) = 1
       /\ \A i \in DOMAIN eng.changes :
            eng.changes[i].key # eng.reference_period \o "_to_" \o eng.reference_period

\* C15 witness: four periods gave three entries
ComparisonMatrixWitness ==
    /\ eng.call = "create_change_analysis"
    /\ Len(eng.composites) = 4
    /\ eng.raised = ""
    /\ Len(eng.changes) = 3

\* C16: when reference_period is not a key of composites (the empty map
\* included), create_change_analysis raises ValueError and returns no
\* matrix, whatever the indices, and analyze raises the same error.
UnknownReferenceRaises ==
    (eng.call # "" /\ eng.reference_period \notin SeqSet(eng.composites))
    => /\ eng.raised = "ValueError"
       /\ eng.changes = <<>>

\* C16 witness: analyze raised ValueError for a reference period that is not
\* among its periods
UnknownReferenceRaisesWitness ==
    /\ eng.call = "analyze"
    /\ eng.composites # <<>>
    /\ eng.reference_period \notin SeqSet(eng.composites)
    /\ eng.raised = "ValueError"

\* C17: with an empty indices list and at least one period other than the
\* reference, create_change_analysis does not raise and returns, for each
\* comparison, an artifact with zero change bands.
EmptyIndicesYieldNoBands ==
    (/\ eng.call = "create_change_analysis"
     /\ ~eng.indices.none
     /\ eng.indices.list = <<>>
     /\ eng.reference_period \in SeqSet(eng.composites)
     /\ Len(eng.composites) >= 2)
    => /\ eng.raised = ""
       /\ Len(eng.changes) = Len(eng.composites) - 1
       /\ \A i \in DOMAIN eng.changes : eng.changes[i].bands = <<>>

\* C18: on the asynchronous path an error ends with the job FAILED and the
\* message in its error field: a reference period that create_change_analysis
\* rejects or a failure of the engine (run_job raised), and an AOI that does
\* not convert to a geometry (the route rejected the request of the job).
AsyncErrorsFailJob ==
    /\ \A r \in Runners :
         (run[r].pc = "raised" /\ ~run[r].touched /\ run[r].job_id \in jobs)
         => /\ heap[run[r].job_id].status = FAILED
            /\ heap[run[r].job_id].error = run[r].exc
    /\ \A j \in hist.rejected :
         /\ heap[j].status = FAILED
         /\ heap[j].error # None

\* C19: what JobStore.create evicts are COMPLETED and FAILED jobs, oldest
\* completed first: every evicted job has a completed_at less than or equal
\* to that of every COMPLETED or FAILED job that remains in the store.
EvictsOldestCompleted ==
    \A e \in hist.evicted :
        /\ heap[e].status \in {COMPLETED, FAILED}
        /\ \A j \in jobs :
             heap[j].status \in {COMPLETED, FAILED}
             => heap[e].completed_at <= heap[j].completed_at

\* C19 witness: create evicted a job that finished earlier than a finished
\* job that stays, and that was inserted after it
EvictsOldestCompletedWitness ==
    \E e \in hist.evicted, j \in jobs :
        /\ heap[j].status \in {COMPLETED, FAILED}
        /\ heap[e].completed_at < heap[j].completed_at
        /\ e > j

\* C20: the results run_job and run_job_from_file store on a COMPLETED job
\* hold plain values only: no image handle of composites or changes and no
\* other unevaluated engine handle.
StoredResultsArePlain ==
    (eng.call = "analyze" /\ eng.raised = "")
    => \A mode \in Modes :
         LET stored == SerializableResultsKinds(
                           mode, AnalyzeReturn(eng.composites, eng.changes))
         IN \A key \in DOMAIN stored : stored[key] \subseteq PlainKinds

\* C21: in every state every job has results set only if its status is
\* COMPLETED and error set only if its status is FAILED.
ResultsErrorMatchStatus ==
    \A j \in DOMAIN heap :
        /\ heap[j].results # None => heap[j].status = COMPLETED
        /\ heap[j].error # None => heap[j].status = FAILED

\* C22: created_at, started_at and completed_at of every job are written at
\* most once: a timestamp that is set never changes in any step.
TimestampsWrittenOnce ==
    [][\A j \in DOMAIN heap :
          /\ heap'[j].created_at = heap[j].created_at
          /\ heap[j].started_at # NoTime => heap'[j].started_at = heap[j].started_at
          /\ heap[j].completed_at # NoTime
             => heap'[j].completed_at = heap[j].completed_at]_vars

\* C23: JobStore.create evicts exactly when the store holds at least max_jobs
\* jobs; it then removes min(T, size - max_jobs + 10) jobs, T the number of
\* COMPLETED/FAILED jobs, so that with T >= size - max_jobs + 10 the store
\* holds fewer than max_jobs jobs once the new job is in; with
\* size < max_jobs it removes nothing.
CreateEvictsToMargin ==
    [][CreateJob(DefaultCfgValue) =>
         LET size == Cardinality(jobs)
             T == Cardinality({ j \in jobs : heap[j].status \in {COMPLETED, FAILED} })
             want == size - max_jobs + 10
             removed == Cardinality(jobs \ jobs')
         IN /\ jobs' \ jobs = {FreshId}
            /\ size < max_jobs => removed = 0
            /\ size >= max_jobs => removed = (IF T < want THEN T ELSE want)
            /\ (size >= max_jobs /\ T >= want) => Cardinality(jobs') < max_jobs]_vars

\* C23 witness: create evicted from a store that held more finished jobs
\* than it removes, one of them stays and the store is under its capacity
CreateEvictsToMarginWitness ==
    /\ hist.evicted # {}
    /\ Cardinality(jobs) < max_jobs
    /\ \E j \in jobs : heap[j].status \in {COMPLETED, FAILED}

\* C24: with run_job running in several threads on distinct jobs, every
\* store update a thread makes changes the record of its own job only, the
\* progress of each job never decreases, and when a thread's run_job has
\* ended its job shows the outcome of that thread's analysis: COMPLETED with
\* results and no error if it returned, FAILED with the message of its
\* exception and no results if it raised.
ConcurrentRunsIsolated ==
    [][/\ \A r \in Runners :
            (RunJobStart(r) \/ RunProgress(r) \/ RunComplete(r) \/ RunRaise(r))
            => \A j \in DOMAIN heap : j # run[r].job_id => heap'[j] = heap[j]
       /\ \A j \in DOMAIN heap : heap[j].progress <= heap'[j].progress
       /\ \A r \in Runners :
            LET job == heap'[run'[r].job_id]
            IN /\ run'[r].pc = "returned"
                  => /\ job.status = COMPLETED
                     /\ job.results # None
                     /\ job.error = None
               /\ run'[r].pc = "raised"
                  => /\ job.status = FAILED
                     /\ job.error = run'[r].exc
                     /\ job.results = None]_vars

\* C24 witness: two threads are inside run_job at once on different jobs,
\* the first at the end of its analysis and the second at its start, and each
\* job shows the progress its own thread wrote
ConcurrentRunsIsolatedWitness ==
    \E r1 \in Runners, r2 \in Runners :
        /\ run[r1].pc = "analyze" /\ run[r1].k = Len(Steps(run[r1].mode))
        /\ run[r2].pc = "analyze" /\ run[r2].k = 2
        /\ run[r1].job_id # run[r2].job_id
        /\ heap[run[r1].job_id].progress = ProgressUnit
        /\ heap[run[r2].job_id].progress < ProgressUnit

\* C25: create_sequential_change with a list of distinct periods returns one
\* entry "<period_i>_to_<period_i+1>" for each consecutive pair whose two
\* periods have a composite and no other entry; n >= 1 periods that all have
\* composites give n - 1 entries.
SequentialPairs ==
    LET o == eng.period_order
        have == SeqSet(eng.composites)
        keys == { eng.changes[i].key : i \in DOMAIN eng.changes }
    IN (/\ eng.call = "create_sequential_change"
        /\ \A i \in DOMAIN o, j \in DOMAIN o : i # j => o[i] # o[j])
       => /\ keys = { o[i] \o "_to_" \o o[i + 1] :
                        i \in { k \in 1..(Len(o) - 1) : o[k] \in have /\ o[k + 1] \in have } }
          /\ Cardinality(keys) = Len(eng.changes)
          /\ (Len(o) >= 1 /\ SeqSet(o) \subseteq have) => Len(eng.changes) = Len(o) - 1

\* C25 witness: four distinct periods, one of them without a composite, gave
\* the one consecutive pair that has both
SequentialPairsWitness ==
    /\ eng.call = "create_sequential_change"
    /\ eng.period_order = <<"1990s", "2000s", "2010s", "present">>
    /\ SeqSet(eng.composites) = {"1990s", "2000s", "present"}
    /\ Len(eng.changes) = 1
    /\ eng.changes[1].key = "1990s_to_2000s"

\* C26: analyze_period_change without thresholds classifies the delta of
\* index X with CHANGE_THRESHOLDS["d" + X], and for an index that has no
\* configured thresholds it raises an error and makes no classifier.
DefaultThresholdsOfIndex ==
    eng.made_by = "classify_change"
    => LET key == "d" \o eng.index_name
       IN IF key \in DOMAIN CHANGE_THRESHOLDS
          THEN eng.thresholds = <<CHANGE_THRESHOLDS[key]>>
          ELSE eng.raised # "" /\ eng.thresholds = <<>>

\* C27: every run_job or run_job_from_file that found its job in the store
\* ends, and when it ends the job, unless it has left the store, is COMPLETED
\* or FAILED; after the call has ended the job is not RUNNING unless another
\* call is running it.
RunEndsFinished ==
    \A r \in 1..LiveThreads :
        /\ (run[r].pc \in {"got", "analyze"})
              ~> (/\ run[r].pc \in {"returned", "raised"}
                  /\ run[r].job_id \in jobs
                     => heap[run[r].job_id].status \in {COMPLETED, FAILED})
        /\ []((/\ run[r].pc \in {"returned", "raised"}
                /\ run[r].start # "absent"
                /\ run[r].job_id \in jobs
                /\ \A o \in 1..LiveThreads :
                     ~(run[o].pc = "analyze" /\ run[o].job_id = run[r].job_id))
               => heap[run[r].job_id].status \in {COMPLETED, FAILED})

\* C27 witness: a run_job_from_file whose statistics raised has ended and
\* its job, still in the store, is FAILED
RunEndsFinishedWitness ==
    \E r \in Runners :
        /\ run[r].pc = "raised"
        /\ run[r].mode = "from_file"
        /\ run[r].exc = ExcMessage("generate_change_statistics")
        /\ run[r].job_id \in jobs
        /\ heap[run[r].job_id].status = FAILED

ClassifyMonotone ==
    [][(eng'.change_class # 0 /\ BoundariesOrdered(eng'.thresholds[1]))
       => /\ (eng.change_class # 0 /\ eng.thresholds = eng'.thresholds)
             => /\ eng.delta <= eng'.delta => eng.change_class <= eng'.change_class
                /\ eng.delta >= eng'.delta => eng.change_class >= eng'.change_class
          /\ Cardinality({ i \in 1..4 :
                             RangeTests(eng'.delta, eng'.thresholds[1])[i] }) <= 1
          /\ \A order \in CascadeOrders :
               ClassifyInOrder(eng'.delta, eng'.thresholds[1], order)
                 = eng'.change_class]_vars

\* C29 witness: a delta equal to strong_gain was classified 5 under ordered
\* thresholds
ClassifyMonotoneWitness ==
    /\ eng.change_class = 5
    /\ BoundariesOrdered(eng.thresholds[1])
    /\ eng.delta = eng.thresholds[1].strong_gain

\* C30: the class classify gives a delta does not depend on stable_min or
\* stable_max: thresholds that differ from the ones used in these two fields
\* only give the delta the same class.
ClassIgnoresStableBand ==
    eng.change_class # 0
    => \A smin \in Boundaries, smax \in Boundaries :
         Classify(eng.delta, [eng.thresholds[1] EXCEPT !.stable_min = smin,
                                                       !.stable_max = smax])
           = eng.change_class

\* C30 witness: a delta above stable_max and below moderate_gain was
\* classified 3
ClassIgnoresStableBandWitness ==
    /\ eng.change_class = 3
    /\ eng.thresholds[1].stable_max < eng.delta
    /\ eng.delta < eng.thresholds[1].moderate_gain

====
